---- MODULE Spec2Model ----
(***************************************************************************)
(* A model of sul (src/src/main.rs): tokenize, make_ast and the evaluation *)
(* of the call tree by the four intrinsics.                                *)
(*                                                                         *)
(* Text is a sequence of one-character strings.  A Location is             *)
(* [line, col]; the file name is the same in every location of one run and *)
(* is left out.  A Var is [slot, dat]: the identity of its Rc storage slot  *)
(* and the LispType the slot holds; an alias (new_ref) has the same slot.   *)
(* Indices into token slices are zero-based as in the source; ts[i] of the  *)
(* source is ts[i + 1] here.                                                *)
(***************************************************************************)
EXTENDS Integers, Sequences, FiniteSets, TLC

VARIABLES
    entry,       \* the entry point used: "run_lisp", "make_ast", "tokenize" or "from"
    pc,          \* "source" | "tokens" | "ast" | "resolved" | "unresolved" | "failed"
                 \* | "crashed"; for the classifier "text" | "classified" | "crashed"
    source,      \* the text handed to run_lisp, to tokenize or to the classifier
    toks,        \* the token slice handed to make_ast
    start,       \* the start location handed to make_ast
    ast,         \* make_ast's Ok(Statement), with its cache slots
    result,      \* the last Result returned: [kind: "Ok" | "Err" | "Panic" | "None", ...]
                 \* (for the classifier, Ok carries the TokenType)
    out,         \* the lines written to standard output, in order
    nresolves,   \* how many times Statement::resolve was called on the top node
    next         \* the next unused storage slot

vars == <<entry, pc, source, toks, start, ast, result, out, nresolves, next>>

(***************************************************************************)
(* Bounds of the model.                                                    *)
(***************************************************************************)
\* Calls of Statement::resolve on one node by a caller of make_ast
MaxResolves == 3

\* Tokens of a generated expression source
MaxToks == 6

\* Words of an arbitrary source, tokens of an arbitrary slice handed to make_ast
MaxLen == 5

\* Tokens of a generated arithmetic source
MaxArithToks == 11

\* Characters of a raw token text handed to the classifier
MaxText == 3

\* Characters of an arbitrary source handed to tokenize
MaxChars == 5

(***************************************************************************)
(* Characters and text.                                                    *)
(***************************************************************************)
Digits == <<"0", "1", "2", "3", "4", "5", "6", "7", "8", "9">>

IsDigit(c) == \E d \in 1..10 : Digits[d] = c

DigitVal(c) == (CHOOSE d \in 1..10 : Digits[d] = c) - 1

IsSpace(c) == c = " "

RECURSIVE NatToText(_)
NatToText(n) ==
    IF n < 10 THEN <<Digits[n + 1]>>
    ELSE NatToText(n \div 10) \o <<Digits[(n % 10) + 1]>>

\* Display of an isize
IntToText(i) == IF i < 0 THEN <<"-">> \o NatToText(-i) ELSE NatToText(i)

RECURSIVE DigitsVal(_)
DigitsVal(s) ==
    IF s = <<>> THEN 0
    ELSE 10 * DigitsVal(SubSeq(s, 1, Len(s) - 1)) + DigitVal(s[Len(s)])

AllDigits(s) == \A k \in 1..Len(s) : IsDigit(s[k])

HasSign(s) == Len(s) > 0 /\ s[1] \in {"+", "-"}

Unsigned(s) == IF HasSign(s) THEN Tail(s) ELSE s

\* str::parse::<isize>: an optional sign and one or more digits
ParsesInt(s) == Len(Unsigned(s)) > 0 /\ AllDigits(Unsigned(s))

ParseInt(s) ==
    IF HasSign(s) /\ s[1] = "-" THEN 0 - DigitsVal(Unsigned(s))
    ELSE DigitsVal(Unsigned(s))

DotAt(s) == IF \E k \in 1..Len(s) : s[k] = "."
            THEN CHOOSE k \in 1..Len(s) : s[k] = "." /\ \A j \in 1..(k - 1) : s[j] # "."
            ELSE 0

IntPart(s) == IF DotAt(s) = 0 THEN s ELSE SubSeq(s, 1, DotAt(s) - 1)

FracPart(s) == IF DotAt(s) = 0 THEN <<>> ELSE SubSeq(s, DotAt(s) + 1, Len(s))

\* str::parse::<f64> on the texts the model's characters can spell: an optional
\* sign, digits with at most one point, at least one digit (no exponent, inf, nan)
ParsesFloat(s) ==
    LET u == Unsigned(s) IN
    /\ AllDigits(IntPart(u))
    /\ AllDigits(FracPart(u))
    /\ Len(IntPart(u)) + Len(FracPart(u)) > 0

RECURSIVE StripZeros(_)
StripZeros(f) ==
    IF f # <<>> /\ f[Len(f)] = "0" THEN StripZeros(SubSeq(f, 1, Len(f) - 1)) ELSE f

\* The f64 as a decimal: mant / 10^scale, the fraction without trailing zeros
ParseFloat(s) ==
    LET u == Unsigned(s)
        f == StripZeros(FracPart(u))
        m == DigitsVal(IntPart(u) \o f)
    IN  [mant |-> IF HasSign(s) /\ s[1] = "-" THEN 0 - m ELSE m, scale |-> Len(f)]

(***************************************************************************)
(* LispType, TokenType, Location.                                          *)
(***************************************************************************)
Integer(i) == [tag |-> "Integer", i |-> i]

Floating(f) == [tag |-> "Floating", mant |-> f.mant, scale |-> f.scale]

Str(s) == [tag |-> "Str", s |-> s]

Nil == [tag |-> "Nil"]

Func(o) == [tag |-> "Func", op |-> o]

StatementVal(st) == [tag |-> "Statement", st |-> st]

Location(l, c) == [line |-> l, col |-> c]

OpenParens == [type |-> "OpenParens"]

CloseParens == [type |-> "CloseParens"]

Recognizable(v) == [type |-> "Recognizable", val |-> v]

Ident(s) == [type |-> "Ident", id |-> s]

Token(l, d) == [loc |-> l, dat |-> d]

Quote == "\""

NilText == <<"n", "i", "l">>

\* TokenTypeFrom trying the float before the integer
TokenTypeFromFloatFirst(s) ==
    IF ParsesFloat(s) THEN Recognizable(Floating(ParseFloat(s)))
    ELSE IF ParsesInt(s) THEN Recognizable(Integer(ParseInt(s)))
    ELSE IF Len(s) > 0 /\ s[1] = Quote /\ s[Len(s)] = Quote
         THEN IF Len(s) = 1 THEN [type |-> "Panic"]
              ELSE Recognizable(Str(SubSeq(s, 2, Len(s) - 1)))
    ELSE IF s = NilText THEN Recognizable(Nil)
    ELSE Ident(s)

\* TokenTypeFrom making the text + a literal that carries the Add intrinsic
TokenTypeFromFuncLiteral(s) ==
    IF s = <<"+">> THEN Recognizable(Func("Add"))
    ELSE IF ParsesInt(s) THEN Recognizable(Integer(ParseInt(s)))
    ELSE IF ParsesFloat(s) THEN Recognizable(Floating(ParseFloat(s)))
    ELSE IF Len(s) > 0 /\ s[1] = Quote /\ s[Len(s)] = Quote
         THEN IF Len(s) = 1 THEN [type |-> "Panic"]
              ELSE Recognizable(Str(SubSeq(s, 2, Len(s) - 1)))
    ELSE IF s = NilText THEN Recognizable(Nil)
    ELSE Ident(s)

\* impl From<T: ToString> for TokenType
TokenTypeFrom(s) ==
    IF ParsesInt(s) THEN Recognizable(Integer(ParseInt(s)))
    ELSE IF ParsesFloat(s) THEN Recognizable(Floating(ParseFloat(s)))
    ELSE IF Len(s) > 0 /\ s[1] = Quote /\ s[Len(s)] = Quote
         THEN IF Len(s) = 1 THEN [type |-> "Panic"]
              ELSE Recognizable(Str(SubSeq(s, 2, Len(s) - 1)))
    ELSE IF s = NilText THEN Recognizable(Nil)
    ELSE Ident(s)

(***************************************************************************)
(* tokenize.                                                               *)
(***************************************************************************)
RECURSIVE SplitLines(_, _, _)
SplitLines(s, cur, acc) ==
    IF s = <<>> THEN (IF cur = <<>> THEN acc ELSE Append(acc, cur))
    ELSE IF Head(s) = "\n" THEN SplitLines(Tail(s), <<>>, Append(acc, cur))
    ELSE SplitLines(Tail(s), Append(cur, Head(s)), acc)

\* str::lines: the pieces between line breaks, no empty piece after the last break
Lines(s) == SplitLines(s, <<>>, <<>>)

RECURSIVE TrimStart(_)
TrimStart(s) == IF s # <<>> /\ IsSpace(Head(s)) THEN TrimStart(Tail(s)) ELSE s

RECURSIVE TrimEnd(_)
TrimEnd(s) ==
    IF s # <<>> /\ IsSpace(s[Len(s)]) THEN TrimEnd(SubSeq(s, 1, Len(s) - 1)) ELSE s

\* str::trim
Trim(s) == TrimEnd(TrimStart(s))

\* The scanner's locals: to_return, token_buf, token_col, token_line, in_string
TokenizerInit ==
    [to_return |-> <<>>, token_buf |-> <<>>, token_col |-> 0, token_line |-> 0,
     in_string |-> FALSE]

\* BufToken without the classifier: the buffer text as it is
BufTokenUnclassified(st) == Token(Location(st.token_line, st.token_col), Ident(st.token_buf))

\* The token finalized from the buffer, at the remembered position
BufToken(st) == Token(Location(st.token_line, st.token_col), TokenTypeFrom(st.token_buf))

\* The (' ', false) arm when the buffer is blank: nothing changes, token_col included
SpaceOnBlank(st) == st

\* The ('(', false) arm: the buffer is neither flushed nor cleared
OpenArm(st, col_number, line_number) ==
    [st EXCEPT !.to_return = Append(@, Token(Location(st.token_line, st.token_col), OpenParens)),
               !.token_col = col_number + 1,
               !.token_line = line_number]

\* The (')', false) arm
CloseArm(st, col_number, line_number) ==
    LET flushed == IF Trim(st.token_buf) # <<>>
                   THEN [st EXCEPT !.to_return = Append(@, BufToken(st)),
                                   !.token_buf = <<>>,
                                   !.token_col = col_number,
                                   !.token_line = line_number]
                   ELSE st
    IN  [flushed EXCEPT
            !.to_return = Append(@, Token(Location(flushed.token_line, flushed.token_col),
                                          CloseParens)),
            !.token_col = col_number + 1,
            !.token_line = line_number]

\* One iteration of the inner loop: the match on (character, in_string)
TokenizeChar(st, character, col_number, line_number) ==
    IF character = Quote /\ st.in_string THEN
        LET pushed == [st EXCEPT !.token_buf = Append(@, character)] IN
        [pushed EXCEPT !.to_return = Append(@, BufToken(pushed)),
                       !.token_buf = <<>>,
                       !.token_col = col_number + 1,
                       !.token_line = line_number,
                       !.in_string = FALSE]
    ELSE IF st.in_string THEN [st EXCEPT !.token_buf = Append(@, character)]
    ELSE IF character = Quote THEN
        [st EXCEPT !.token_buf = Append(@, character),
                   !.in_string = TRUE,
                   !.token_col = col_number,
                   !.token_line = line_number]
    ELSE IF character = " " THEN
        IF Trim(st.token_buf) # <<>>
        THEN [st EXCEPT !.to_return = Append(@, BufToken(st)),
                        !.token_buf = <<>>,
                        !.token_col = col_number + 1,
                        !.token_line = line_number]
        ELSE SpaceOnBlank(st)
    ELSE IF character = "(" THEN OpenArm(st, col_number, line_number)
    ELSE IF character = ")" THEN CloseArm(st, col_number, line_number)
    ELSE [st EXCEPT !.token_buf = Append(@, character)]

RECURSIVE TokenizeLine(_, _, _, _)
TokenizeLine(st, line_data, col_number, line_number) ==
    IF col_number >= Len(line_data) THEN st
    ELSE TokenizeLine(TokenizeChar(st, line_data[col_number + 1], col_number, line_number),
                      line_data, col_number + 1, line_number)

RECURSIVE TokenizeLines(_, _, _)
TokenizeLines(st, lines, line_number) ==
    IF line_number >= Len(lines) THEN st
    ELSE TokenizeLines(TokenizeLine(st, Trim(lines[line_number + 1]), 0, line_number),
                       lines, line_number + 1)

\* Tokenize finalizing the text left in the buffer when the input ends
TokenizeFlushAtEnd(input) ==
    LET st == TokenizeLines(TokenizerInit, Lines(input), 0) IN
    IF Trim(st.token_buf) # <<>> THEN Append(st.to_return, BufToken(st)) ELSE st.to_return

\* tokenize: Ok(to_return); what is left in the buffer at the end is dropped
Tokenize(input) == TokenizeLines(TokenizerInit, Lines(input), 0).to_return

(***************************************************************************)
(* Var, Scope, Statement.                                                  *)
(***************************************************************************)
\* Var::new: a fresh storage slot holding the value
VarNew(slot, v) == [slot |-> slot, dat |-> v]

\* Var::new_ref: another handle on the same slot
NewRef(v) == v

None == <<>>

Some(v) == <<v>>

PrintText == <<"p", "r", "i", "n", "t">>

\* Scope::default: the four intrinsics, each in a slot of its own, made in this order
ScopeItems ==
    <<[key |-> PrintText, op |-> "Print"],
      [key |-> <<"+">>, op |-> "Add"],
      [key |-> <<"-">>, op |-> "Subtract"],
      [key |-> <<"*">>, op |-> "Multiply"]>>

ScopeSlots == Len(ScopeItems)

\* idents.vars.get(id): None, or Some(the environment's cell)
ScopeGet(id) ==
    IF \E k \in 1..Len(ScopeItems) : ScopeItems[k].key = id
    THEN LET k == CHOOSE k \in 1..Len(ScopeItems) : ScopeItems[k].key = id
         IN  Some(VarNew(k, Func(ScopeItems[k].op)))
    ELSE None

\* The first slot make_ast may allocate after the environment was built
FirstFreeSlot == ScopeSlots + 1

(***************************************************************************)
(* make_ast.  Results: [kind |-> "Ok", st, next], [kind |-> "Err", err] or *)
(* [kind |-> "Panic", why].                                                *)
(***************************************************************************)
AstErr(kind, loc, name) == [kind |-> "Err", err |-> [kind |-> kind, loc |-> loc, name |-> name]]

Panic(why) == [kind |-> "Panic", why |-> why]

\* start_idx: one leading OpenParens is skipped
StartIdx(ts) == IF ts[1].dat = OpenParens THEN 1 ELSE 0

\* end_idx: one trailing CloseParens is skipped.  `under` tells that end_idx was 0
\* and the subtraction left the range of usize.
EndIdx(ts) ==
    IF ts[Len(ts)].dat = CloseParens
    THEN [idx |-> Len(ts) - 2, under |-> Len(ts) = 1]
    ELSE [idx |-> Len(ts) - 1, under |-> FALSE]

\* UnmatchedOpenLoc taking the bottom of the stack
UnmatchedOpenLocEarliest(ts, open_stack) == ts[open_stack[1] + 1].loc

\* The location reported for an unmatched opening parenthesis: open_stack.pop()
UnmatchedOpenLoc(ts, open_stack) == ts[open_stack[Len(open_stack)] + 1].loc

\* The location reported for an empty statement
EmptyStatementLoc(ts, start_loc) == start_loc

RECURSIVE MakeAst(_, _, _, _)

Cont(acc) == [kind |-> "Cont", acc |-> acc]

\* TokenType::OpenParens arm
OpenParensArm(ts, i, acc) == Cont([acc EXCEPT !.open_stack = Append(@, i)])

\* TokenType::CloseParens arm
CloseParensArm(ts, i, acc, chk) ==
    IF acc.open_stack = <<>> THEN AstErr("UnmatchedClosingParen", ts[i + 1].loc, <<>>)
    ELSE
    LET o == acc.open_stack[Len(acc.open_stack)]
        popped == SubSeq(acc.open_stack, 1, Len(acc.open_stack) - 1)
    IN
    IF popped = <<>> THEN
        LET sub == MakeAst(SubSeq(ts, o + 1, i + 1), ts[o + 2].loc, acc.next, chk) IN
        IF sub.kind # "Ok" THEN sub
        ELSE Cont([acc EXCEPT !.open_stack = popped,
                              !.args = Append(@, VarNew(sub.next, StatementVal(sub.st))),
                              !.next = sub.next + 1])
    ELSE Cont([acc EXCEPT !.open_stack = popped])

\* impl Clone for LispType: a literal is duplicated, a Func or a Statement is fatal
LispClone(v) ==
    IF v.tag = "Func" THEN Panic("Tried to clone a function!")
    ELSE IF v.tag = "Statement" THEN Panic("Tried to clone a statement!")
    ELSE v

\* TokenType::Recognizable arm: the token's value is cloned into a new cell
RecognizableArm(ts, i, acc) ==
    IF acc.open_stack = <<>>
    THEN LET n == LispClone(ts[i + 1].dat.val) IN
         IF "kind" \in DOMAIN n THEN n
         ELSE Cont([acc EXCEPT !.args = Append(@, VarNew(acc.next, n)),
                               !.next = @ + 1])
    ELSE Cont(acc)

\* IdentArm putting a copy of the environment's value in a cell of its own
IdentArmCopies(ts, i, acc) ==
    LET t == ts[i + 1] IN
    IF ScopeGet(t.dat.id) = None THEN AstErr("UnknownIdentifier", t.loc, t.dat.id)
    ELSE IF acc.open_stack = <<>>
    THEN Cont([acc EXCEPT !.args = Append(@, VarNew(acc.next, ScopeGet(t.dat.id)[1].dat)),
                          !.loc = Some(t.loc),
                          !.next = @ + 1])
    ELSE Cont(acc)

\* IdentArm testing the depth before the lookup
IdentArmDepthFirst(ts, i, acc) ==
    LET t == ts[i + 1] IN
    IF acc.open_stack # <<>> THEN Cont(acc)
    ELSE IF ScopeGet(t.dat.id) = None THEN AstErr("UnknownIdentifier", t.loc, t.dat.id)
    ELSE Cont([acc EXCEPT !.args = Append(@, NewRef(ScopeGet(t.dat.id)[1])),
                          !.loc = Some(t.loc)])

\* IdentArm reporting the location of the first token of the slice
IdentArmFirstLoc(ts, i, acc) ==
    LET t == ts[i + 1] IN
    IF ScopeGet(t.dat.id) = None THEN AstErr("UnknownIdentifier", ts[1].loc, t.dat.id)
    ELSE IF acc.open_stack = <<>>
    THEN Cont([acc EXCEPT !.args = Append(@, NewRef(ScopeGet(t.dat.id)[1])),
                          !.loc = Some(t.loc)])
    ELSE Cont(acc)

\* TokenType::Ident arm: the lookup comes before the test of the depth
IdentArm(ts, i, acc) ==
    LET t == ts[i + 1] IN
    IF ScopeGet(t.dat.id) = None THEN AstErr("UnknownIdentifier", t.loc, t.dat.id)
    ELSE IF acc.open_stack = <<>>
    THEN Cont([acc EXCEPT !.args = Append(@, NewRef(ScopeGet(t.dat.id)[1])),
                          !.loc = Some(t.loc)])
    ELSE Cont(acc)

\* The body of the for loop: the match on ts[i].dat
ScanStep(ts, i, acc, chk) ==
    LET ty == ts[i + 1].dat.type IN
    IF ty = "OpenParens" THEN OpenParensArm(ts, i, acc)
    ELSE IF ty = "CloseParens" THEN CloseParensArm(ts, i, acc, chk)
    ELSE IF ty = "Recognizable" THEN RecognizableArm(ts, i, acc)
    ELSE IdentArm(ts, i, acc)

RECURSIVE ScanFrom(_, _, _, _, _, _)
\* for i in start_idx..=end_idx, from index i on; `wrapped`: end_idx is usize::MAX
ScanFrom(ts, i, last, wrapped, acc, chk) ==
    IF ~wrapped /\ i > last THEN [kind |-> "Scanned", acc |-> acc]
    ELSE IF i >= Len(ts) THEN Panic("index out of bounds")
    ELSE LET r == ScanStep(ts, i, acc, chk) IN
         IF r.kind = "Cont" THEN ScanFrom(ts, i + 1, last, wrapped, r.acc, chk) ELSE r

\* What follows the loop.  The node carries, besides the four fields of struct
\* Statement, a history field: calls, the number of times resolve has run on it.
Finish(ts, start_loc, acc) ==
    IF acc.open_stack # <<>>
    THEN AstErr("UnmatchedOpeningParen", UnmatchedOpenLoc(ts, acc.open_stack), <<>>)
    ELSE IF acc.args = <<>>
    THEN AstErr("EmptyStatement", EmptyStatementLoc(ts, start_loc), <<>>)
    ELSE IF Head(acc.args).dat.tag # "Func"
    THEN AstErr("RawList", start_loc, <<>>)
    ELSE IF acc.loc = None THEN Panic("unwrap on None")
    ELSE [kind |-> "Ok",
          st |-> [args |-> Tail(acc.args), op |-> Head(acc.args), res |-> None,
                  loc |-> acc.loc[1], calls |-> 0],
          next |-> acc.next]

MakeAst(ts, start_loc, nxt, chk) ==
    IF Len(ts) = 0 THEN Panic("index out of bounds")
    ELSE
    LET e == EndIdx(ts) IN
    IF e.under /\ chk THEN Panic("attempt to subtract with overflow")
    ELSE
    LET scanned == ScanFrom(ts, StartIdx(ts), e.idx, e.under,
                            [open_stack |-> <<>>, args |-> <<>>, loc |-> None, next |-> nxt],
                            chk)
    IN  IF scanned.kind = "Scanned" THEN Finish(ts, start_loc, scanned.acc) ELSE scanned

(***************************************************************************)
(* Evaluation.  An evaluation environment e is [out, next]: the lines      *)
(* written so far and the next free slot.  A Result is [kind |-> "Ok",     *)
(* val: Var], [kind |-> "Err", err: [kind |-> "TypeError", msg]] or a      *)
(* Panic.                                                                  *)
(***************************************************************************)
Ok(v) == [kind |-> "Ok", val |-> v]

\* TypeError::new
TypeError(msg) == [kind |-> "Err", err |-> [kind |-> "TypeError", msg |-> msg]]

Line(kind, text) == [kind |-> kind, text |-> text]

\* impl Display for Location
LocationText(loc) ==
    <<"<file>", ":">> \o NatToText(loc.line) \o <<":">> \o NatToText(loc.col)

RECURSIVE Pow10(_)
Pow10(n) == IF n = 0 THEN 1 ELSE 10 * Pow10(n - 1)

RECURSIVE ZeroPad(_, _)
ZeroPad(t, width) == IF Len(t) >= width THEN t ELSE ZeroPad(<<"0">> \o t, width)

\* Display of an f64 that is mant / 10^scale
FloatText(mant, scale) ==
    LET m == IF mant < 0 THEN 0 - mant ELSE mant
        whole == NatToText(m \div Pow10(scale))
        frac == IF scale = 0 THEN <<>>
                ELSE <<".">> \o ZeroPad(NatToText(m % Pow10(scale)), scale)
    IN  (IF mant < 0 THEN <<"-">> ELSE <<>>) \o whole \o frac

RECURSIVE StatementResolve(_, _)
RECURSIVE VarDisplay(_, _)

\* Var::resolve: a Statement is resolved, anything else is its own alias
VarResolve(v, e) ==
    IF v.dat.tag = "Statement"
    THEN LET sr == StatementResolve(v.dat.st, e)
         IN  [r |-> sr.r, e |-> sr.e, v |-> [v EXCEPT !.dat.st = sr.st]]
    ELSE [r |-> Ok(NewRef(v)), e |-> e, v |-> v]

\* VarDisplay resolving a Statement once to learn whether it fails and once more
\* for the text it writes
VarDisplayTwice(v, e) ==
    LET d == v.dat IN
    IF d.tag = "Integer" THEN [ok |-> TRUE, text |-> IntToText(d.i), e |-> e, v |-> v]
    ELSE IF d.tag = "Str" THEN [ok |-> TRUE, text |-> d.s, e |-> e, v |-> v]
    ELSE IF d.tag = "Func" THEN [ok |-> TRUE, text |-> <<"<Function>">>, e |-> e, v |-> v]
    ELSE IF d.tag = "Floating"
    THEN [ok |-> TRUE, text |-> FloatText(d.mant, d.scale), e |-> e, v |-> v]
    ELSE IF d.tag = "Nil" THEN [ok |-> TRUE, text |-> NilText, e |-> e, v |-> v]
    ELSE
        LET first == StatementResolve(d.st, e)
            sr == StatementResolve(first.st, first.e)
            v1 == [v EXCEPT !.dat.st = sr.st]
        IN  IF sr.r.kind = "Ok"
            THEN LET inner == VarDisplay(sr.r.val, sr.e)
                 IN  [ok |-> inner.ok, text |-> inner.text, e |-> inner.e, v |-> v1]
            ELSE IF sr.r.kind = "Err"
            THEN [ok |-> TRUE, text |-> sr.r.err.msg, e |-> sr.e, v |-> v1]
            ELSE [ok |-> FALSE, text |-> <<>>, e |-> sr.e, v |-> v1]

\* impl Display for LispType (through impl Display for Var): the text, and what
\* resolving a Statement on the way wrote and cached
VarDisplay(v, e) ==
    LET d == v.dat IN
    IF d.tag = "Integer" THEN [ok |-> TRUE, text |-> IntToText(d.i), e |-> e, v |-> v]
    ELSE IF d.tag = "Str" THEN [ok |-> TRUE, text |-> d.s, e |-> e, v |-> v]
    ELSE IF d.tag = "Func" THEN [ok |-> TRUE, text |-> <<"<Function>">>, e |-> e, v |-> v]
    ELSE IF d.tag = "Floating"
    THEN [ok |-> TRUE, text |-> FloatText(d.mant, d.scale), e |-> e, v |-> v]
    ELSE IF d.tag = "Nil" THEN [ok |-> TRUE, text |-> NilText, e |-> e, v |-> v]
    ELSE \* Statement: s.resolve(), then the value's text or the error's
        LET sr == StatementResolve(d.st, e)
            v1 == [v EXCEPT !.dat.st = sr.st]
        IN  IF sr.r.kind = "Ok"
            THEN LET inner == VarDisplay(sr.r.val, sr.e)
                 IN  [ok |-> inner.ok, text |-> inner.text, e |-> inner.e, v |-> v1]
            ELSE IF sr.r.kind = "Err"
            THEN [ok |-> TRUE, text |-> sr.r.err.msg, e |-> sr.e, v |-> v1]
            ELSE [ok |-> FALSE, text |-> <<>>, e |-> sr.e, v |-> v1]

ArityDiagnostic(op) ==
    IF op = "Add" THEN " - Addition requires at least two arguments!"
    ELSE IF op = "Multiply" THEN " - Multiplication requires at least two arguments!"
    ELSE " - Subtraction requires at least two arguments!"

\* if args.len() < 2 { println!(...) }: the diagnostic, and nothing else
WarnArity(op, args, loc_called, e) ==
    IF Len(args) < 2
    THEN [e EXCEPT !.out = Append(@, Line("diag",
                                         LocationText(loc_called) \o <<ArityDiagnostic(op)>>))]
    ELSE e

\* The message of the type error for operand k (1 is the first) of op
NonIntegerMsg(op, k, shown) ==
    IF op = "Add" THEN <<"Cannot add a non-integer type to an integer: ">> \o shown \o <<"!">>
    ELSE IF op = "Multiply"
    THEN IF k = 1 THEN <<"Cannot multiply with a non-integer type!">>
         ELSE <<"Cannot multiply a non-integer type with an integer!">>
    ELSE IF k = 1 THEN <<"Cannot subtract from a non-integer!">>
         ELSE <<"Cannot subtract a non-integer type from an integer!">>

\* Accumulate with the subtraction turned round
AccumulateSwapped(op, k, acc, i) ==
    IF op = "Add" THEN acc + i
    ELSE IF k = 1 THEN i
    ELSE IF op = "Multiply" THEN acc * i
    ELSE i - acc

\* sum += i, product = i / product *= i, sum = i / sum -= i
Accumulate(op, k, acc, i) ==
    IF op = "Add" THEN acc + i
    ELSE IF k = 1 THEN i
    ELSE IF op = "Multiply" THEN acc * i
    ELSE acc - i

\* NonIntegerOperand that lets the operand count as 0
NonIntegerOperandIgnored(op, k, args, vr) ==
    [r |-> Ok(VarNew(vr.e.next, Integer(0))), e |-> [vr.e EXCEPT !.next = @ + 1],
     args |-> [args EXCEPT ![k] = vr.v]]

\* What an arithmetic intrinsic does with an operand that resolved to a non-Integer
NonIntegerOperand(op, k, args, vr) ==
    IF op = "Add"
    THEN LET d == VarDisplay(vr.v, vr.e) IN
         IF d.ok
         THEN [r |-> TypeError(NonIntegerMsg(op, k, d.text)), e |-> d.e,
               args |-> [args EXCEPT ![k] = d.v]]
         ELSE [r |-> Panic("panic while formatting"), e |-> d.e,
               args |-> [args EXCEPT ![k] = d.v]]
    ELSE [r |-> TypeError(NonIntegerMsg(op, k, <<>>)), e |-> vr.e,
          args |-> [args EXCEPT ![k] = vr.v]]

\* What an arithmetic intrinsic does when a.resolve() fails: the `?` returns the error
OperandFailed(op, k, args, vr) ==
    [r |-> vr.r, e |-> vr.e, args |-> [args EXCEPT ![k] = vr.v]]

RECURSIVE FoldOperands(_, _, _, _, _)
\* FoldOperands resolving the operands that follow the one it fails on, before it
\* returns the error
FoldOperandsThrough(op, args, k, acc, e) ==
    IF k > Len(args)
    THEN [r |-> Ok(VarNew(e.next, Integer(acc))), e |-> [e EXCEPT !.next = @ + 1],
          args |-> args]
    ELSE LET vr == VarResolve(args[k], e) IN
         IF vr.r.kind = "Ok" /\ vr.r.val.dat.tag = "Integer"
         THEN FoldOperands(op, [args EXCEPT ![k] = vr.v], k + 1,
                           Accumulate(op, k, acc, vr.r.val.dat.i), vr.e)
         ELSE LET failed == IF vr.r.kind # "Ok" THEN OperandFailed(op, k, args, vr)
                            ELSE NonIntegerOperand(op, k, args, vr)
                  rest == FoldOperands(op, failed.args, k + 1, acc, failed.e)
              IN  [r |-> failed.r, e |-> rest.e, args |-> rest.args]

\* FoldOperands resolving every operand twice: once to test it, once for its value
FoldOperandsRetry(op, args, k, acc, e) ==
    IF k > Len(args)
    THEN [r |-> Ok(VarNew(e.next, Integer(acc))), e |-> [e EXCEPT !.next = @ + 1],
          args |-> args]
    ELSE LET tested == VarResolve(args[k], e)
             vr == VarResolve(tested.v, tested.e)
         IN
         IF vr.r.kind # "Ok" THEN OperandFailed(op, k, args, vr)
         ELSE IF vr.r.val.dat.tag = "Integer"
         THEN FoldOperands(op, [args EXCEPT ![k] = vr.v], k + 1,
                           Accumulate(op, k, acc, vr.r.val.dat.i), vr.e)
         ELSE NonIntegerOperand(op, k, args, vr)

\* The loop(s) of Add, Multiply and Subtract over the operands from the k-th on
FoldOperands(op, args, k, acc, e) ==
    IF k > Len(args)
    THEN [r |-> Ok(VarNew(e.next, Integer(acc))), e |-> [e EXCEPT !.next = @ + 1],
          args |-> args]
    ELSE LET vr == VarResolve(args[k], e) IN
         IF vr.r.kind # "Ok" THEN OperandFailed(op, k, args, vr)
         ELSE IF vr.r.val.dat.tag = "Integer"
         THEN FoldOperands(op, [args EXCEPT ![k] = vr.v], k + 1,
                           Accumulate(op, k, acc, vr.r.val.dat.i), vr.e)
         ELSE NonIntegerOperand(op, k, args, vr)

\* IntrinsicOp::Add
CallAdd(args, loc_called, e) ==
    FoldOperands("Add", args, 1, 0, WarnArity("Add", args, loc_called, e))

\* CallSeeded that makes the low operand count an error
CallSeededStrict(op, args, loc_called, e) ==
    LET e1 == WarnArity(op, args, loc_called, e) IN
    IF Len(args) < 2
    THEN [r |-> TypeError(<<ArityDiagnostic(op)>>), e |-> e1, args |-> args]
    ELSE FoldOperands(op, args, 1, 0, e1)

\* IntrinsicOp::Multiply and IntrinsicOp::Subtract
CallSeeded(op, args, loc_called, e) ==
    LET e1 == WarnArity(op, args, loc_called, e) IN
    IF Len(args) = 0
    THEN [r |-> Panic("unwrap on None"), e |-> e1, args |-> args]
    ELSE FoldOperands(op, args, 1, 0, e1)

\* CallPrint that accepts any operand list that is not empty and shows its first
CallPrintLenient(args, loc_called, e) ==
    IF Len(args) = 0
    THEN [r |-> TypeError(<<"Print intrinsic requires only one argument!">>), e |-> e,
          args |-> args]
    ELSE LET d == VarDisplay(args[1], e) IN
         IF d.ok
         THEN [r |-> Ok(VarNew(d.e.next, Integer(0))),
               e |-> [out |-> Append(d.e.out, Line("display", d.text)),
                      next |-> d.e.next + 1],
               args |-> [args EXCEPT ![1] = d.v]]
         ELSE [r |-> Panic("panic while formatting"), e |-> d.e,
               args |-> [args EXCEPT ![1] = d.v]]

\* IntrinsicOp::Print
CallPrint(args, loc_called, e) ==
    IF Len(args) # 1
    THEN [r |-> TypeError(<<"Print intrinsic requires only one argument!">>), e |-> e,
          args |-> args]
    ELSE LET d == VarDisplay(args[1], e) IN
         IF d.ok
         THEN [r |-> Ok(VarNew(d.e.next, Integer(0))),
               e |-> [out |-> Append(d.e.out, Line("display", d.text)),
                      next |-> d.e.next + 1],
               args |-> <<d.v>>]
         ELSE [r |-> Panic("panic while formatting"), e |-> d.e, args |-> <<d.v>>]

\* impl Callable for IntrinsicOp
IntrinsicCall(op, args, loc_called, e) ==
    IF op = "Add" THEN CallAdd(args, loc_called, e)
    ELSE IF op = "Print" THEN CallPrint(args, loc_called, e)
    ELSE CallSeeded(op, args, loc_called, e)

\* CacheAfter storing a copy of the value in a cell of its own
CacheAfterCopy(res, r) ==
    IF r.kind = "Ok" THEN Some(VarNew(r.val.slot + 1, r.val.dat)) ELSE res

\* What resolve leaves in the cache slot
CacheAfter(res, r) == IF r.kind = "Ok" THEN Some(NewRef(r.val)) ELSE res

\* StatementResolve answering from the cache slot once it is filled
StatementResolveMemo(st, e) ==
    IF st.res # None
    THEN [r |-> Ok(NewRef(st.res[1])), e |-> e, st |-> [st EXCEPT !.calls = @ + 1]]
    ELSE LET c == IntrinsicCall(st.op.dat.op, st.args, st.loc, e) IN
         [r |-> c.r, e |-> c.e,
          st |-> [st EXCEPT !.args = c.args, !.res = CacheAfter(@, c.r),
                            !.calls = @ + 1]]

\* Statement::resolve
StatementResolve(st, e) ==
    IF st.op.dat.tag # "Func"
    THEN [r |-> Panic("Expected to be LispType::Func"), e |-> e,
          st |-> [st EXCEPT !.calls = @ + 1]]
    ELSE LET c == IntrinsicCall(st.op.dat.op, st.args, st.loc, e) IN
         [r |-> c.r, e |-> c.e,
          st |-> [st EXCEPT !.args = c.args, !.res = CacheAfter(@, c.r),
                            !.calls = @ + 1]]

(***************************************************************************)
(* Inputs.  A word is the text of one token; a source is rendered from a   *)
(* sequence of words as the repository's test writes it: on one line, one  *)
(* space between two words, none after "(" or before ")".                  *)
(***************************************************************************)
OpenWord == <<"(">>

CloseWord == <<")">>

RECURSIVE Render(_)
Render(ws) ==
    IF Len(ws) = 0 THEN <<>>
    ELSE IF Len(ws) = 1 THEN ws[1]
    ELSE IF ws[1] = OpenWord \/ ws[2] = CloseWord THEN ws[1] \o Render(Tail(ws))
    ELSE ws[1] \o <<" ">> \o Render(Tail(ws))

RECURSIVE ExprsOfSize(_, _, _, _)
RECURSIVE OperandSeqs(_, _, _, _, _)

\* The expressions of exactly n words: an atom, or ( op operand ... ) with at least
\* `least` operands
ExprsOfSize(n, ops, atoms, least) ==
    (IF n = 1 THEN {<<a>> : a \in atoms} ELSE {})
    \cup (IF n >= 3
          THEN {<<OpenWord, o>> \o body \o <<CloseWord>> :
                    o \in ops, body \in OperandSeqs(n - 3, least, ops, atoms, least)}
          ELSE {})

\* The operand lists of m words in all, with at least k operands
OperandSeqs(m, k, ops, atoms, least) ==
    (IF m = 0 /\ k <= 0 THEN {<<>>} ELSE {})
    \cup UNION {{e \o rest : e \in ExprsOfSize(j, ops, atoms, least),
                             rest \in OperandSeqs(m - j, k - 1, ops, atoms, least)} :
                j \in 1..m}

CallsUpTo(n, ops, atoms, least) == UNION {ExprsOfSize(j, ops, atoms, least) : j \in 3..n}

RECURSIVE SeqsUpTo(_, _)
\* Every sequence of at most n elements of S
SeqsUpTo(n, S) ==
    IF n = 0 THEN {<<>>}
    ELSE LET shorter == SeqsUpTo(n - 1, S) IN
         shorter \cup {Append(q, x) : q \in shorter, x \in S}

Operators == {<<"+">>, <<"-">>, <<"*">>, PrintText}

\* An integer, a string, a float, nil, a function name and an unknown name
Atoms == {<<"2">>, <<Quote, "s", Quote>>, <<"1", ".", "5">>, NilText, <<"+">>, <<"x">>}

JunkWords == {OpenWord, CloseWord, <<"+">>, <<"x">>, <<"2">>}

\* The calls, two words longer, over the two operators that write without failing
\* on a count and two literals: nested calls with operands and side effects
NestedSources ==
    {Render(ws) : ws \in CallsUpTo(MaxToks + 2, {<<"+">>, PrintText},
                                   {<<"2">>, <<Quote, "s", Quote>>}, 0)}

Sources ==
    {Render(ws) : ws \in CallsUpTo(MaxToks, Operators \cup {<<"x">>}, Atoms, 0)}
    \cup {Render(ws) : ws \in SeqsUpTo(MaxLen, JunkWords)}
    \cup NestedSources

ArithOperators == {<<"+">>, <<"-">>, <<"*">>}

IntAtoms == {<<"-", "3">>, <<"1", "0">>}

\* Fully parenthesized prefix expressions over +, - and *, two operands or more a
\* call, every operand an integer literal or another such expression
\* and, two words longer, hence nested two deep, those over - and one literal
ArithSources ==
    {Render(ws) : ws \in CallsUpTo(MaxArithToks, ArithOperators, IntAtoms, 2)}
    \cup {Render(ws) : ws \in CallsUpTo(MaxArithToks + 2, {<<"-">>}, {<<"1", "0">>}, 2)}

\* The token slices handed straight to make_ast: any kinds, the k-th token at column k
TokenKinds == {OpenParens, CloseParens, Ident(PrintText), Ident(<<"+">>), Ident(<<"x">>),
               Recognizable(Integer(2))}

Located(ds) == [k \in 1..Len(ds) |-> Token(Location(0, k - 1), ds[k])]

TokenSlices == {Located(ds) : ds \in SeqsUpTo(MaxLen, TokenKinds)}

\* The characters of the raw token texts
TextChars == {"1", "0", "-", "+", ".", Quote, "n", "i", "l"}

Quotes(s) == Cardinality({k \in 1..Len(s) : s[k] = Quote})

\* The texts tokenize can hand to the classifier: a buffer flushed outside a string
\* is not empty and holds no quote; a buffer flushed by a closing quote holds two
\* quotes, the second one last
RawTexts ==
    {t \in SeqsUpTo(MaxText, TextChars) :
        /\ t # <<>>
        /\ \/ Quotes(t) = 0
           \/ Quotes(t) = 2 /\ t[Len(t)] = Quote}

\* The characters of the arbitrary sources: the five the tokenizer tells apart and
\* one that it just collects
SourceChars == {"(", ")", " ", Quote, "\n", "a"}

CharSources == SeqsUpTo(MaxChars, SourceChars)

(***************************************************************************)
(* The state machine.                                                      *)
(***************************************************************************)
NoResult == [kind |-> "None"]

\* run_lisp(source, file): nothing done yet
InitRun(srcs) ==
    /\ entry = "run_lisp"
    /\ pc = "source"
    /\ source \in srcs
    /\ toks = <<>>
    /\ start = Location(0, 0)
    /\ ast = None
    /\ result = NoResult
    /\ out = <<>>
    /\ nresolves = 0
    /\ next = FirstFreeSlot

\* A caller of the public make_ast with a slice and a start location of its own
InitAst ==
    /\ entry = "make_ast"
    /\ pc = "tokens"
    /\ source = <<>>
    /\ toks \in TokenSlices
    /\ start = Location(1, 0)
    /\ ast = None
    /\ result = NoResult
    /\ out = <<>>
    /\ nresolves = 0
    /\ next = FirstFreeSlot

\* let toks = tokenize(source, file)?;
TokenizeStep ==
    /\ pc = "source"
    /\ toks' = Tokenize(source)
    /\ pc' = "tokens"
    /\ UNCHANGED <<entry, source, start, ast, result, out, nresolves, next>>

\* let ast = make_ast(&toks, &Scope::default(), &start)?; in a build that checks
\* integer overflow or in one that wraps
MakeAstStep ==
    /\ pc = "tokens"
    /\ \E chk \in BOOLEAN :
        LET r == MakeAst(toks, start, next, chk) IN
        /\ pc' = IF r.kind = "Ok" THEN "ast" ELSE IF r.kind = "Err" THEN "failed" ELSE "crashed"
        /\ ast' = IF r.kind = "Ok" THEN Some(r.st) ELSE None
        /\ next' = IF r.kind = "Ok" THEN r.next ELSE next
        /\ result' = IF r.kind = "Ok" THEN NoResult ELSE r
    /\ UNCHANGED <<entry, source, toks, start, out, nresolves>>

\* ast.resolve(): once in run_lisp, as often as it likes for a caller of make_ast
ResolveStep ==
    /\ pc \in {"ast", "resolved", "unresolved"}
    /\ nresolves < (IF entry = "run_lisp" THEN 1 ELSE MaxResolves)
    /\ LET sr == StatementResolve(ast[1], [out |-> out, next |-> next]) IN
        /\ pc' = IF sr.r.kind = "Ok" THEN "resolved"
                 ELSE IF sr.r.kind = "Err" THEN "unresolved" ELSE "crashed"
        /\ ast' = Some(sr.st)
        /\ result' = sr.r
        /\ out' = sr.e.out
        /\ next' = sr.e.next
    /\ nresolves' = nresolves + 1
    /\ UNCHANGED <<entry, source, toks, start>>

\* A buffer text about to be classified: dat: token_buf.into()
InitFrom ==
    /\ entry = "from"
    /\ pc = "text"
    /\ source \in RawTexts
    /\ toks = <<>>
    /\ start = Location(0, 0)
    /\ ast = None
    /\ result = NoResult
    /\ out = <<>>
    /\ nresolves = 0
    /\ next = FirstFreeSlot

\* TokenType::from(text)
FromStep ==
    /\ pc = "text"
    /\ LET d == TokenTypeFrom(source) IN
        /\ pc' = IF d.type = "Panic" THEN "crashed" ELSE "classified"
        /\ result' = IF d.type = "Panic" THEN Panic("attempt to subtract with overflow")
                     ELSE [kind |-> "Ok", val |-> d]
    /\ UNCHANGED <<entry, source, toks, start, ast, out, nresolves, next>>

\* tokenize(source, file) called on its own
InitTok ==
    /\ entry = "tokenize"
    /\ pc = "source"
    /\ source \in CharSources
    /\ toks = <<>>
    /\ start = Location(0, 0)
    /\ ast = None
    /\ result = NoResult
    /\ out = <<>>
    /\ nresolves = 0
    /\ next = FirstFreeSlot

NextRun == TokenizeStep \/ MakeAstStep \/ ResolveStep

NextAst == MakeAstStep \/ ResolveStep

\* run_lisp on the sources of Sources
Spec == InitRun(Sources) /\ [][NextRun]_vars

\* run_lisp on the arithmetic sources
SpecArith == InitRun(ArithSources) /\ [][NextRun]_vars

\* make_ast on the slices of TokenSlices, and resolve on what it built
SpecAst == InitAst /\ [][NextAst]_vars

\* The classifier on the texts of RawTexts
SpecFrom == InitFrom /\ [][FromStep]_vars

\* tokenize on the sources of CharSources
SpecTok == InitTok /\ [][TokenizeStep]_vars

\* Control leaves the position it is at: run_lisp is three calls in a row in one
\* thread, with no suspension point, so the call that is due is made and returns
Advance ==
    /\ pc \in {"source", "tokens", "ast"}
    /\ pc' \in {"tokens", "ast", "resolved", "unresolved", "failed", "crashed"} \ {pc}

SpecRun == InitRun(Sources) /\ [][NextRun]_vars /\ WF_pc(Advance)

(***************************************************************************)
(* The reference reading of a source, used to state the claims: its words  *)
(* (maximal runs of characters other than space and parentheses, and the   *)
(* parentheses), and the value of an arithmetic expression.                *)
(***************************************************************************)
RECURSIVE WordsFrom(_, _, _)
WordsFrom(s, cur, acc) ==
    LET flushed == IF cur = <<>> THEN acc ELSE Append(acc, cur) IN
    IF s = <<>> THEN flushed
    ELSE IF Head(s) = " " THEN WordsFrom(Tail(s), <<>>, flushed)
    ELSE IF Head(s) \in {"(", ")"} THEN WordsFrom(Tail(s), <<>>, Append(flushed, <<Head(s)>>))
    ELSE WordsFrom(Tail(s), Append(cur, Head(s)), acc)

Words(s) == WordsFrom(s, <<>>, <<>>)

\* The integer an integer literal of the arithmetic sources denotes
LiteralValue(w) == IF w = <<"-", "3">> THEN 0 - 3 ELSE 10

RECURSIVE GroupEnd(_, _, _)
\* The index of the ")" closing the group that is open `depth` deep at index k
GroupEnd(ws, k, depth) ==
    IF ws[k] = OpenWord THEN GroupEnd(ws, k + 1, depth + 1)
    ELSE IF ws[k] = CloseWord
    THEN (IF depth = 1 THEN k ELSE GroupEnd(ws, k + 1, depth - 1))
    ELSE GroupEnd(ws, k + 1, depth)

RECURSIVE SplitOperands(_)
\* The operands (each a word sequence) of an operand list
SplitOperands(ws) ==
    IF ws = <<>> THEN <<>>
    ELSE IF ws[1] = OpenWord
    THEN LET j == GroupEnd(ws, 1, 0) IN
         <<SubSeq(ws, 1, j)>> \o SplitOperands(SubSeq(ws, j + 1, Len(ws)))
    ELSE <<<<ws[1]>>>> \o SplitOperands(Tail(ws))

RECURSIVE RefValue(_)
RECURSIVE RefFold(_, _, _, _)

\* The reference value: the sum of the operands for +, the first operand minus each
\* later one for -, the product for *, nested expressions first
RefValue(ws) ==
    IF Len(ws) = 1 THEN LiteralValue(ws[1])
    ELSE LET operands == SplitOperands(SubSeq(ws, 3, Len(ws) - 1)) IN
         RefFold(ws[2], operands, 2, RefValue(operands[1]))

RefFold(o, operands, k, acc) ==
    IF k > Len(operands) THEN acc
    ELSE LET v == RefValue(operands[k]) IN
         RefFold(o, operands, k + 1,
                 IF o = <<"+">> THEN acc + v ELSE IF o = <<"-">> THEN acc - v ELSE acc * v)

Returned == pc \in {"resolved", "unresolved", "failed", "crashed"}

\* C1: run on a fully parenthesized prefix expression over +, - and * (two operands
\* or more a call, integer literals or such expressions as operands) returns the
\* Integer equal to the reference value of the expression.
C1_RunGivesReferenceValue ==
    (entry = "run_lisp" /\ Returned) =>
        /\ pc = "resolved"
        /\ result = Ok(VarNew(result.val.slot, Integer(RefValue(Words(source)))))

\* A - call over a nested call has been evaluated
C1_Witness ==
    /\ entry = "run_lisp"
    /\ pc = "resolved"
    /\ ast[1].op.dat.op = "Subtract"
    /\ Len(ast[1].args) = 2
    /\ ast[1].args[2].dat.tag = "Statement"
    /\ ast[1].args[2].dat.st.op.dat.op = "Multiply"
    /\ result.val.dat = Integer((0 - 3) - (10 * 10))

\* Two calls nested two deep have been evaluated
C1_WitnessDeep ==
    /\ entry = "run_lisp"
    /\ pc = "resolved"
    /\ Len(ast[1].args) = 2
    /\ ast[1].args[2].dat.tag = "Statement"
    /\ ast[1].args[2].dat.st.args[2].dat.tag = "Statement"

(***************************************************************************)
(* Claims about evaluation, on the node run_lisp built and resolved.       *)
(***************************************************************************)
\* A scratch environment, to ask what an operand resolves to on its own
E0 == [out |-> <<>>, next |-> 0]

IsArith(op) == op \in {"Add", "Subtract", "Multiply"}

\* run_lisp has called resolve on the node it built
RunResolved == entry = "run_lisp" /\ ast # None /\ nresolves = 1

OperandResult(v) == VarResolve(v, E0).r

\* Whether the operator of st gets to evaluate its k-th operand
Evaluates(st, k) ==
    IF st.op.dat.op = "Print" THEN Len(st.args) = 1
    ELSE \A j \in 1..(k - 1) :
            /\ OperandResult(st.args[j]).kind = "Ok"
            /\ OperandResult(st.args[j]).val.dat.tag = "Integer"

RECURSIVE RaisedIn(_)
\* The failed Results of the calls nested in st, at any depth, that are evaluated
\* when st is resolved
RaisedIn(st) ==
    UNION {IF st.args[k].dat.tag = "Statement" /\ Evaluates(st, k)
           THEN (IF OperandResult(st.args[k]).kind = "Err"
                 THEN {OperandResult(st.args[k])} ELSE {})
                \cup RaisedIn(st.args[k].dat.st)
           ELSE {} : k \in 1..Len(st.args)}

\* C2: an error (a type error, an arity error of print) raised by a call nested at
\* any depth is what run returns: no enclosing operator turns the failed operand
\* into a successful result.
C2_NestedErrorReachesRun ==
    (RunResolved /\ pc # "crashed") => \A r \in RaisedIn(ast[1]) : result = r

RECURSIVE NodesOf(_)
\* A node and every node nested in it
NodesOf(st) ==
    {st} \cup UNION {IF st.args[k].dat.tag = "Statement" THEN NodesOf(st.args[k].dat.st)
                     ELSE {} : k \in 1..Len(st.args)}

NonIntegerValue(v) == v.dat.tag \in {"Str", "Floating", "Nil", "Func"}

\* After the resolve: the operand is an Integer, or a call that returned a value
YieldedValue(v) ==
    v.dat.tag = "Integer" \/ (v.dat.tag = "Statement" /\ v.dat.st.res # None)

\* The operator of st came to an operand that is not an Integer
MetNonInteger(st) ==
    \E k \in 1..Len(st.args) :
        /\ NonIntegerValue(st.args[k])
        /\ \A j \in 1..(k - 1) : YieldedValue(st.args[j])

\* C4: when Add, Subtract or Multiply resolves one of its operands to a value that
\* is not an Integer (Str, Floating, Nil or Func), the call returns a type error and
\* no value (its cache slot stays empty), at the top of the tree and below it.
C4_NonIntegerOperandIsTypeError ==
    RunResolved =>
        /\ (IsArith(ast[1].op.dat.op) /\ MetNonInteger(ast[1])) =>
                /\ pc = "unresolved"
                /\ result.kind = "Err"
                /\ result.err.kind = "TypeError"
        /\ \A st \in NodesOf(ast[1]) :
                (IsArith(st.op.dat.op) /\ MetNonInteger(st)) => st.res = None

\* Multiply met a Str as its second operand, after an Integer
C4_Witness ==
    /\ RunResolved
    /\ pc = "unresolved"
    /\ ast[1].op.dat.op = "Multiply"
    /\ Len(ast[1].args) = 2
    /\ ast[1].args[1].dat.tag = "Integer"
    /\ ast[1].args[2].dat.tag = "Str"
    /\ result.kind = "Err"

\* The text of a literal operand, read off the word that spells it in the source
SpelledText(w) ==
    IF w[1] = Quote THEN SubSeq(w, 2, Len(w) - 1)
    ELSE IF w \in Operators THEN <<"<Function>">>
    ELSE w

\* C5: print with exactly one operand displays the operand's textual form once,
\* after whatever evaluating the operand displays, and returns Integer 0 (whenever
\* evaluating the operand does not abort the process); with any other number of
\* operands it returns a type error and displays nothing.
C5_PrintOneOperand ==
    (RunResolved /\ ast[1].op.dat.op = "Print") =>
        LET args == ast[1].args
            shown == VarDisplay(args[1], E0)
        IN
        /\ (Len(args) = 1 /\ pc # "crashed") =>
                /\ pc = "resolved"
                /\ result.kind = "Ok"
                /\ result.val.dat = Integer(0)
                /\ out = shown.e.out \o <<Line("display", shown.text)>>
                /\ args[1].dat.tag # "Statement" =>
                        out = <<Line("display", SpelledText(Words(source)[3]))>>
        /\ Len(args) # 1 =>
                /\ pc = "unresolved"
                /\ result.kind = "Err"
                /\ result.err.kind = "TypeError"
                /\ out = <<>>

\* print displayed a float; print with two operands failed
C5_Witness ==
    /\ RunResolved
    /\ ast[1].op.dat.op = "Print"
    /\ Len(ast[1].args) = 1
    /\ ast[1].args[1].dat.tag = "Floating"
    /\ out = <<Line("display", <<"1", ".", "5">>)>>
    /\ result.val.dat = Integer(0)

\* C6: Add, Subtract or Multiply with fewer than two operands writes its diagnostic
\* first and goes on: it returns no error on account of the count; with one Integer
\* operand it returns that Integer, and Add with no operand returns Integer 0.
C6_LowArityWarnsAndGoesOn ==
    (RunResolved /\ IsArith(ast[1].op.dat.op) /\ Len(ast[1].args) < 2) =>
        LET st == ast[1] IN
        /\ out # <<>>
        /\ out[1] = Line("diag", LocationText(st.loc) \o <<ArityDiagnostic(st.op.dat.op)>>)
        /\ (Len(st.args) = 1 /\ YieldedValue(st.args[1])) =>
                /\ pc = "resolved"
                /\ result.kind = "Ok"
                /\ result.val.dat = (IF st.args[1].dat.tag = "Integer" THEN st.args[1].dat
                                     ELSE st.args[1].dat.st.res[1].dat)
        /\ (Len(st.args) = 0 /\ st.op.dat.op = "Add") =>
                /\ pc = "resolved"
                /\ result.kind = "Ok"
                /\ result.val.dat = Integer(0)
        /\ result.kind = "Err" => (Len(st.args) = 1 /\ ~YieldedValue(st.args[1]))

\* Subtract returned its one operand after the diagnostic
C6_Witness ==
    /\ RunResolved
    /\ ast[1].op.dat.op = "Subtract"
    /\ Len(ast[1].args) = 1
    /\ Len(out) = 1
    /\ out[1].kind = "diag"
    /\ result = Ok(VarNew(result.val.slot, Integer(2)))

(***************************************************************************)
(* Claims about make_ast, on the slice it was handed.                      *)
(***************************************************************************)
\* make_ast has returned (or the process has aborted in it)
Built == pc \notin {"source", "tokens"}

EnvKeys == {PrintText, <<"+">>, <<"-">>, <<"*">>}

UnknownIdent(t) == t.dat.type = "Ident" /\ t.dat.id \notin EnvKeys

\* The indices the for loop visits
ScannedRange(ts) == IF ts = <<>> THEN {} ELSE StartIdx(ts)..EndIdx(ts).idx

Opens(ts, from, to) == Cardinality({j \in from..to : ts[j + 1].dat = OpenParens})

Closes(ts, from, to) == Cardinality({j \in from..to : ts[j + 1].dat = CloseParens})

\* Token i of the scanned range is outside every parenthesis opened in the range
DepthZero(ts, i) ==
    /\ Opens(ts, StartIdx(ts), i - 1) = Closes(ts, StartIdx(ts), i - 1)
    /\ \A j \in StartIdx(ts)..(i - 1) :
            Opens(ts, StartIdx(ts), j) >= Closes(ts, StartIdx(ts), j)

ScanStart == [open_stack |-> <<>>, args |-> <<>>, loc |-> None, next |-> FirstFreeSlot]

\* The loop gets as far as token i: no token before it makes make_ast return
ScanReaches(ts, i) ==
    ScanFrom(ts, StartIdx(ts), i - 1, FALSE, ScanStart, TRUE).kind = "Scanned"

UnknownIdentifierAt(ts, i) ==
    AstErr("UnknownIdentifier", ts[i + 1].loc, ts[i + 1].dat.id)

\* C7 as stated: whenever a depth-0 identifier token of the scanned range is not a
\* key of the environment, make_ast fails with the unknown-identifier error that
\* names it and carries its location, and run returns that error.
C7_EveryUnknownIdentifierReported ==
    Built =>
        \A i \in ScannedRange(toks) :
            (UnknownIdent(toks[i + 1]) /\ DepthZero(toks, i)) =>
                (pc = "failed" /\ result = UnknownIdentifierAt(toks, i))

\* C7, amended: the first error of the scan is the one returned.  Whenever the loop
\* reaches a depth-0 identifier token that is not a key of the environment, make_ast
\* fails with the unknown-identifier error that names it and carries its location,
\* and run returns that error.
C7_ReachedUnknownIdentifierReported ==
    Built =>
        \A i \in ScannedRange(toks) :
            (UnknownIdent(toks[i + 1]) /\ DepthZero(toks, i) /\ ScanReaches(toks, i)) =>
                (pc = "failed" /\ result = UnknownIdentifierAt(toks, i))

\* run returned the error for an unknown operand that follows a literal
C7_Witness ==
    /\ entry = "run_lisp"
    /\ pc = "failed"
    /\ Len(toks) = 5
    /\ toks[3].dat = Recognizable(Integer(2))
    /\ toks[4].dat = Ident(<<"x">>)
    /\ DepthZero(toks, 3)
    /\ result = UnknownIdentifierAt(toks, 3)

\* The slice has nothing between its outer parentheses, if any
NothingToScan(ts) ==
    /\ Len(ts) <= 2
    /\ \A k \in 1..Len(ts) : /\ ts[k].dat \in {OpenParens, CloseParens}
                             /\ ts[k].dat = OpenParens => k = 1
                             /\ ts[k].dat = CloseParens => k = Len(ts)

\* C8: for every token sequence from which no operand is collected (the empty
\* sequence, `()`, a lone `(`), make_ast returns the EmptyStatement error whose
\* location is the start argument.
C8_NoOperandIsEmptyStatement ==
    (Built /\ NothingToScan(toks)) =>
        (pc = "failed" /\ result = AstErr("EmptyStatement", start, <<>>))

\* What the loop leaves when it runs to the end of the range
Scanned(ts) == ScanFrom(ts, StartIdx(ts), EndIdx(ts).idx, FALSE, ScanStart, TRUE)

EndsWithOpen(ts) ==
    /\ ts # <<>>
    /\ ~EndIdx(ts).under
    /\ Scanned(ts).kind = "Scanned"
    /\ Scanned(ts).acc.open_stack # <<>>

UnmatchedOpeningParenAt(ts, i) == AstErr("UnmatchedOpeningParen", ts[i + 1].loc, <<>>)

\* C9 as stated: when the scan ends with open parentheses on the stack, make_ast
\* fails with UnmatchedOpeningParen at the location of the earliest (first pushed)
\* unmatched OpenParens token.
C9_EarliestUnmatchedOpenReported ==
    (Built /\ EndsWithOpen(toks)) =>
        /\ pc = "failed"
        /\ result = UnmatchedOpeningParenAt(toks, Scanned(toks).acc.open_stack[1])

\* C9, amended: when the scan ends with open parentheses on the stack, make_ast
\* fails with UnmatchedOpeningParen at the location of the latest (last pushed)
\* unmatched OpenParens token, also when several are unmatched.
C9_LatestUnmatchedOpenReported ==
    (Built /\ EndsWithOpen(toks)) =>
        LET stack == Scanned(toks).acc.open_stack IN
        /\ pc = "failed"
        /\ result = UnmatchedOpeningParenAt(toks, stack[Len(stack)])

\* Two parentheses were left open and the second was reported
C9_Witness ==
    /\ Built
    /\ EndsWithOpen(toks)
    /\ Len(Scanned(toks).acc.open_stack) = 2
    /\ result = UnmatchedOpeningParenAt(toks, Scanned(toks).acc.open_stack[2])
    /\ result # UnmatchedOpeningParenAt(toks, Scanned(toks).acc.open_stack[1])

\* A form without its outer parentheses: an identifier, then operands that are
\* literals, identifiers or balanced parenthesized groups
BareForm(ts) ==
    /\ ts # <<>>
    /\ ts[1].dat.type = "Ident"
    /\ Opens(ts, 0, Len(ts) - 1) = Closes(ts, 0, Len(ts) - 1)
    /\ \A j \in 0..(Len(ts) - 1) : Opens(ts, 0, j) >= Closes(ts, 0, j)

\* The form in parentheses of its own
Parenthesized(ts) ==
    <<Token(Location(2, 0), OpenParens)>> \o ts \o <<Token(Location(2, 1), CloseParens)>>

\* The outcome of make_ast on the slice: the node, or the kind of the error
Outcome(r) == IF r.kind = "Ok" THEN r ELSE IF r.kind = "Err" THEN r.err.kind ELSE r.kind

\* C10: make_ast gives a form T without its outer parentheses the outcome it gives
\* ( T ): the same operator and operands, or the same kind of error, also when the
\* last operand of T is a parenthesized expression.
C10_OuterParenthesesOptional ==
    (entry = "make_ast" /\ Built /\ nresolves = 0 /\ BareForm(toks)) =>
        \A chk \in BOOLEAN :
            Outcome(MakeAst(Parenthesized(toks), start, FirstFreeSlot, chk))
                = (IF ast = None THEN Outcome(result)
                   ELSE [kind |-> "Ok", st |-> ast[1], next |-> next])

\* A tree of print nodes of one operand each
PrintTree(st) ==
    \A n \in NodesOf(st) : n.op.dat.op = "Print" /\ Len(n.args) = 1

\* The lines print has displayed
Displays(lines) == Cardinality({k \in 1..Len(lines) : lines[k].kind = "display"})

\* C3: every call of resolve on a Call Node invokes its operator again, whatever
\* the cache slot holds: after n calls of resolve on a tree of print nodes of one
\* operand each, every print node has displayed n times.
C3_ResolveAlwaysInvokes ==
    (ast # None /\ PrintTree(ast[1])) =>
        /\ Displays(out) = nresolves * Cardinality(NodesOf(ast[1]))
        /\ Len(out) = Displays(out)
        /\ nresolves > 0 => (pc = "resolved" /\ result.val.dat = Integer(0))

\* The same print node was resolved three times over a filled cache slot
C3_Witness ==
    /\ ast # None
    /\ PrintTree(ast[1])
    /\ nresolves = 3
    /\ ast[1].res # None
    /\ Len(out) = 3

(***************************************************************************)
(* Claims about the classifier and the tokenizer.                          *)
(***************************************************************************)
Classified == entry = "from" /\ pc # "text"

BeginsAndEndsWithQuote(t) == t[1] = Quote /\ t[Len(t)] = Quote

\* C11: the classifier maps a raw token text, in this order of precedence, to
\* Integer if it parses as a signed integer; else to Floating if it parses as a
\* float; else to Str without its first and last character if it begins and ends
\* with a quote; else to Nil if it is nil; else to an Ident with the text unchanged.
C11_ClassifierPrecedence ==
    Classified =>
        LET t == source
            int == ParsesInt(t)
            float == ~int /\ ParsesFloat(t)
            str == ~int /\ ~float /\ BeginsAndEndsWithQuote(t)
            nil == ~int /\ ~float /\ ~str /\ t = NilText
        IN
        /\ pc = "classified"
        /\ int => result.val = Recognizable(Integer(ParseInt(t)))
        /\ float => result.val = Recognizable(Floating(ParseFloat(t)))
        /\ str => result.val = Recognizable(Str(SubSeq(t, 2, Len(t) - 1)))
        /\ nil => result.val = Recognizable(Nil)
        /\ (~int /\ ~float /\ ~str /\ ~nil) => result.val = Ident(t)

\* A text that parses as an integer and as a float was made an Integer
C11_Witness ==
    /\ Classified
    /\ source = <<"+", "1", "0">>
    /\ ParsesInt(source) /\ ParsesFloat(source)
    /\ result.val = Recognizable(Integer(10))

Tokenized == entry = "tokenize" /\ pc = "tokens"

\* The lines of the source as the scanner walks them: each one trimmed
TrimmedLines(input) == [n \in 1..Len(Lines(input)) |-> Trim(Lines(input)[n])]

\* The character at a location: line l (from 0), column c (from 0) of the trimmed
\* line; "" where the source has no character
CharAt(input, l, c) ==
    LET ls == TrimmedLines(input) IN
    IF l < Len(ls) /\ c < Len(ls[l + 1]) THEN ls[l + 1][c + 1] ELSE ""

\* The first character of a token as the source spells it (the sources of
\* CharSources spell no number and no nil)
FirstChar(d) ==
    IF d = OpenParens THEN "("
    ELSE IF d = CloseParens THEN ")"
    ELSE IF d.type = "Ident" THEN d.id[1]
    ELSE Quote

Before(a, b) == a.line < b.line \/ (a.line = b.line /\ a.col < b.col)

\* C12: every token produced by tokenize carries the zero-based line index and the
\* column, within its trimmed line, of the first character of that token (the
\* parenthesis itself, the opening quote of a string), whatever the number of
\* spaces between tokens: the character at the location is the token's first, and
\* the locations go forward through the source.
C12_TokenCarriesItsPosition ==
    Tokenized =>
        /\ \A k \in 1..Len(toks) :
                CharAt(source, toks[k].loc.line, toks[k].loc.col) = FirstChar(toks[k].dat)
        /\ \A k \in 1..(Len(toks) - 1) : Before(toks[k].loc, toks[k + 1].loc)

RECURSIVE QuotesFrom(_, _)
\* The indices of the quote characters of a text from index k on, in order
QuotesFrom(s, k) ==
    IF k > Len(s) THEN <<>>
    ELSE IF s[k] = Quote THEN <<k>> \o QuotesFrom(s, k + 1)
    ELSE QuotesFrom(s, k + 1)

\* The double-quoted segments of a text: the n-th runs from the (2n-1)-th quote,
\* which is met outside a string, to the next quote
Segments(s) ==
    LET q == QuotesFrom(s, 1) IN
    [n \in 1..(Len(q) \div 2) |-> [open |-> q[2 * n - 1], close |-> q[2 * n]]]

\* The characters between the two quotes of a segment
Between(s, seg) == SubSeq(s, seg.open + 1, seg.close - 1)

IsStrToken(t) == t.dat.type = "Recognizable" /\ t.dat.val.tag = "Str"

\* C13: every double-quoted segment of the source yields exactly one Literal token
\* of kind Str whose text is the characters between the two quotes, verbatim,
\* whatever text precedes the opening quote: the Str tokens are, in order, the
\* segments of the source.
C13_SegmentIsOneStrToken ==
    Tokenized =>
        LET strs == SelectSeq(toks, IsStrToken)
            segs == Segments(source)
        IN
        /\ Len(strs) = Len(segs)
        /\ \A n \in 1..Len(segs) : strs[n].dat = Recognizable(Str(Between(source, segs[n])))

\* The number of characters a token takes in the source
TextLen(d) ==
    IF d.type \in {"OpenParens", "CloseParens"} THEN 1
    ELSE IF d.type = "Ident" THEN Len(d.id)
    ELSE Len(d.val.s) + 2

\* The column that follows the end of the token before the k-th (0 for the first)
ColumnAfterPrevious(ts, k) ==
    IF k = 1 THEN 0 ELSE ts[k - 1].loc.col + TextLen(ts[k - 1].dat)

RECURSIVE StreamFrom(_, _)
\* The characters the scanner meets, in order, each with the line and the column
\* (of the trimmed line) it is met at
StreamFrom(ls, n) ==
    IF n > Len(ls) THEN <<>>
    ELSE [c \in 1..Len(ls[n]) |-> [ch |-> ls[n][c], line |-> n - 1, col |-> c - 1]]
         \o StreamFrom(ls, n + 1)

Stream(input) == StreamFrom(TrimmedLines(input), 1)

Chars(stream) == [k \in 1..Len(stream) |-> stream[k].ch]

RECURSIVE PendingBefore(_, _)
\* The text pending in the buffer when the character at index k of the stream, met
\* outside a string, is scanned: what follows the last space, `)` or closing quote,
\* without the `(` characters
PendingBefore(cs, k) ==
    IF k = 1 \/ cs[k - 1] \in {" ", ")", Quote} THEN <<>>
    ELSE IF cs[k - 1] = "(" THEN PendingBefore(cs, k - 1)
    ELSE Append(PendingBefore(cs, k - 1), cs[k - 1])

\* The token the scanner emits for a segment of the stream
SegmentToken(stream, seg) ==
    LET cs == Chars(stream)
        pending == PendingBefore(cs, seg.open)
    IN  Token(Location(stream[seg.open].line, stream[seg.open].col),
              IF pending = <<>> THEN Recognizable(Str(Between(cs, seg)))
              ELSE Ident(pending \o SubSeq(cs, seg.open, seg.close)))

OutsideString(cs, k) == Len(QuotesFrom(SubSeq(cs, 1, k - 1), 1)) % 2 = 0

IsWordChar(c) == c \notin {"(", ")", " ", Quote}

RECURSIVE RunInto(_, _)
\* The indices of the word characters that run up to index k of the stream
RunInto(cs, k) ==
    IF k > 1 /\ IsWordChar(cs[k - 1]) THEN {k - 1} \cup RunInto(cs, k - 1) ELSE {}

\* The characters accumulated immediately before a `(` met outside a string
BeforeOpen(cs) ==
    UNION {RunInto(cs, k) : k \in {j \in 1..Len(cs) : cs[j] = "(" /\ OutsideString(cs, j)}}

\* The word characters a token's text holds
WordCharsOf(d) ==
    LET text == IF d.type = "Ident" THEN d.id
                ELSE IF d.type = "Recognizable" THEN d.val.s ELSE <<>>
    IN  Cardinality({k \in 1..Len(text) : IsWordChar(text[k])})

RECURSIVE WordCharsIn(_)
WordCharsIn(ts) == IF ts = <<>> THEN 0 ELSE WordCharsOf(Head(ts).dat) + WordCharsIn(Tail(ts))

\* C15: text accumulated in the buffer immediately before a `(` met outside a
\* string is discarded: tokenize emits the OpenParens token for every such `(`, and
\* the pending text is in no token, so the tokens hold no more word characters than
\* the source has elsewhere.
C15_TextBeforeOpenParenDiscarded ==
    Tokenized =>
        LET cs == Chars(Stream(source))
            opens == {k \in 1..Len(cs) : cs[k] = "(" /\ OutsideString(cs, k)}
            words == {k \in 1..Len(cs) : IsWordChar(cs[k])}
        IN
        /\ Len(SelectSeq(toks, LAMBDA t : t.dat = OpenParens)) = Cardinality(opens)
        /\ WordCharsIn(toks) <= Cardinality(words \ BeforeOpen(cs))

\* What the tokens are, without where they are
Dats(ts) == [k \in 1..Len(ts) |-> ts[k].dat]

\* The line breaks of a text that stand between two words outside a string
BreaksBetweenWords(s) ==
    {i \in 2..(Len(s) - 1) :
        /\ s[i] = "\n"
        /\ OutsideString(s, i)
        /\ IsWordChar(s[i - 1]) /\ s[i - 1] # "\n"
        /\ IsWordChar(s[i + 1]) /\ s[i + 1] # "\n"}

\* C16: two words outside a string that are separated only by a line break are
\* emitted as two separate tokens, exactly as when a space separates them: putting
\* a space in the place of the line break gives the same tokens.
C16_LineBreakSeparatesWords ==
    Tokenized =>
        \A i \in BreaksBetweenWords(source) :
            Dats(toks) = Dats(Tokenize([source EXCEPT ![i] = " "]))

(***************************************************************************)
(* Claims about the cells of the tree make_ast builds.                     *)
(***************************************************************************)
\* The cells of a tree: every node's operator cell and operand cells
CellsOf(st) == UNION {{n.op} \cup {n.args[k] : k \in 1..Len(n.args)} : n \in NodesOf(st)}

\* The environment's cells, as Scope::default makes them
EnvCells == {VarNew(k, Func(ScopeItems[k].op)) : k \in 1..Len(ScopeItems)}

RECURSIVE OwnCells(_)
\* How many cells of a tree hold a literal or a nested call
OwnCells(st) ==
    LET own(k) == IF st.args[k].dat.tag = "Func" THEN 0
                  ELSE IF st.args[k].dat.tag = "Statement"
                  THEN 1 + OwnCells(st.args[k].dat.st)
                  ELSE 1
        sum[k \in 0..Len(st.args)] == IF k = 0 THEN 0 ELSE sum[k - 1] + own(k)
    IN  sum[Len(st.args)]

\* C17: every operator or operand cell that make_ast builds from an identifier token
\* is an alias of the environment's cell for that identifier: all occurrences of one
\* identifier, at any depth, share the environment's slot, and make_ast allocates
\* slots for the literals and the nested calls only.
C17_IdentifierCellsAliasEnvironment ==
    (entry = "make_ast" /\ ast # None) =>
        /\ \A c \in CellsOf(ast[1]) : c.dat.tag = "Func" => c \in EnvCells
        /\ \A c, d \in CellsOf(ast[1]) :
                (c.dat.tag = "Func" /\ d.dat.tag = "Func" /\ c.dat = d.dat) => c.slot = d.slot
        /\ \A n \in NodesOf(ast[1]) : n.op \in EnvCells
        /\ pc = "ast" => next = FirstFreeSlot + OwnCells(ast[1])

\* + is the operator of the top node, the operator of a nested node and an operand:
\* three cells on the environment's slot for +
C17_Witness ==
    /\ entry = "make_ast"
    /\ pc = "ast"
    /\ Len(ast[1].args) = 2
    /\ ast[1].op = VarNew(2, Func("Add"))
    /\ ast[1].args[1].dat.tag = "Statement"
    /\ ast[1].args[1].dat.st.op = ast[1].op
    /\ ast[1].args[2] = ast[1].op
    /\ next = FirstFreeSlot + 1

\* The fatal path of Clone has been taken
TriedToClone ==
    /\ pc = "crashed"
    /\ result.why \in {"Tried to clone a function!", "Tried to clone a statement!"}

\* The values make_ast clones: those of the Recognizable tokens
ClonedTags == {toks[k].dat.val.tag : k \in {j \in 1..Len(toks) : toks[j].dat.type = "Recognizable"}}

\* C18: in no run is a Func or a Call value value-duplicated: the values cloned are
\* the Integer, Floating, Str and Nil literals the tokens carry, and the fatal
\* `tried to clone` path is not taken.
C18_OnlyLiteralsCloned ==
    entry = "run_lisp" =>
        /\ ClonedTags \subseteq {"Integer", "Floating", "Str", "Nil"}
        /\ ~TriedToClone

\* A run cloned a Str literal and a Nil literal into operand cells and went on
C18_Witness ==
    /\ entry = "run_lisp"
    /\ pc \in {"resolved", "unresolved"}
    /\ {"Str", "Nil"} \subseteq ClonedTags
    /\ \E k \in 1..Len(ast[1].args) : ast[1].args[k].dat.tag = "Str"
    /\ \E k \in 1..Len(ast[1].args) : ast[1].args[k].dat.tag = "Nil"

(***************************************************************************)
(* Claims about the tokens make_ast meets inside parentheses.              *)
(***************************************************************************)
\* make_ast has just returned on a slice whose range the loop can walk
JustBuilt ==
    /\ entry = "make_ast" /\ Built /\ nresolves = 0
    /\ toks # <<>> /\ ~EndIdx(toks).under

\* The tokens of the scanned range that start an operand of this level
OperandStarts(ts) ==
    {i \in ScannedRange(ts) : DepthZero(ts, i) /\ ts[i + 1].dat # CloseParens}

\* The depth-0 identifier tokens of the scanned range
TopIdents(ts) == {i \in ScannedRange(ts) : DepthZero(ts, i) /\ ts[i + 1].dat.type = "Ident"}

Max(S) == CHOOSE m \in S : \A x \in S : x <= m

Min(S) == CHOOSE m \in S : \A x \in S : m <= x

\* The depth-0 `(` tokens of the scanned range that nothing closes in the range,
\* with the scan getting as far as them
OpenForGood(ts) ==
    {o \in ScannedRange(ts) :
        /\ ts[o + 1].dat = OpenParens
        /\ DepthZero(ts, o)
        /\ ScanReaches(ts, o)
        /\ \A j \in o..EndIdx(ts).idx : Opens(ts, o, j) > Closes(ts, o, j)}

\* The unknown identifiers after token o of the scanned range
UnknownAfter(ts, o) == {i \in (o + 1)..EndIdx(ts).idx : UnknownIdent(ts[i + 1])}

\* What a level owes to its depth-0 tokens alone: one operand or operator for each
\* token that starts one, and the location of the last depth-0 identifier
LevelFromTopTokens ==
    (JustBuilt /\ ast # None) =>
        /\ Len(ast[1].args) + 1 = Cardinality(OperandStarts(toks))
        /\ ast[1].loc = toks[Max(TopIdents(toks)) + 1].loc

\* C19 as stated: a literal or identifier token at depth > 0 has no effect on the
\* level being scanned: it adds no operand, sets no call location and raises no
\* error there, so whatever stands inside an opening parenthesis that nothing
\* closes, make_ast reports UnmatchedOpeningParen.
C19_DeepTokensHaveNoEffect ==
    /\ LevelFromTopTokens
    /\ JustBuilt =>
          \A o \in OpenForGood(toks) :
              /\ pc = "failed"
              /\ result.err.kind = "UnmatchedOpeningParen"

\* C19, amended: a literal token at depth > 0, and an identifier token at depth > 0
\* that is a key of the environment, add no operand, set no call location and raise
\* no error on the level being scanned.  An identifier token at depth > 0 that is
\* not a key of the environment makes this level fail with UnknownIdentifier for
\* that token when the scan reaches it: an opening parenthesis that nothing closes
\* is reported as UnmatchedOpeningParen only when no unknown identifier follows it.
C19_DeepTokensButUnknownIdentifiers ==
    /\ LevelFromTopTokens
    /\ JustBuilt =>
          \A o \in OpenForGood(toks) :
              /\ pc = "failed"
              /\ IF UnknownAfter(toks, o) = {}
                 THEN result.err.kind = "UnmatchedOpeningParen"
                 ELSE result = UnknownIdentifierAt(toks, Min(UnknownAfter(toks, o)))

\* An unknown identifier and a literal stand inside a parenthesis that nothing
\* closes: the identifier was reported, the parenthesis was not
C19_Witness ==
    /\ JustBuilt
    /\ Len(toks) = 4
    /\ toks[2].dat = OpenParens
    /\ toks[3].dat = Recognizable(Integer(2))
    /\ toks[4].dat = Ident(<<"x">>)
    /\ 1 \in OpenForGood(toks)
    /\ result = UnknownIdentifierAt(toks, 3)

(***************************************************************************)
(* Claims about the order of evaluation.                                   *)
(***************************************************************************)
\* What resolving the operand on its own writes
OperandOut(v) == VarResolve(v, E0).e.out

RECURSIVE OperandsOut(_, _)
\* What resolving the first n operands, one after the other, writes
OperandsOut(args, n) ==
    IF n = 0 THEN <<>> ELSE OperandsOut(args, n - 1) \o OperandOut(args[n])

\* An operand an arithmetic intrinsic stops at: it fails, or it is not an Integer
StopsAt(v) ==
    \/ OperandResult(v).kind # "Ok"
    \/ OperandResult(v).val.dat.tag # "Integer"

\* The first operand the fold stops at, or one more than the number of operands
FirstStop(args) ==
    IF \E k \in 1..Len(args) : StopsAt(args[k])
    THEN Min({k \in 1..Len(args) : StopsAt(args[k])})
    ELSE Len(args) + 1

\* The arity diagnostic of an arithmetic node, if it writes one
OwnDiagnostic(st) ==
    IF Len(st.args) < 2
    THEN <<Line("diag", LocationText(st.loc) \o <<ArityDiagnostic(st.op.dat.op)>>)>>
    ELSE <<>>

IsCall(v) == v.dat.tag = "Statement"

RunReturned == RunResolved /\ pc # "crashed"

\* C20 as stated: evaluation is depth-first: when a Call Node is evaluated, every
\* Call Node among its operands is resolved, its side effects included, before the
\* node's operator yields its own result, display or error, for all four
\* intrinsics and every operand count.
C20_OperandsResolvedFirst ==
    RunReturned =>
        LET st == ast[1]
            all == OperandsOut(st.args, Len(st.args))
        IN
        /\ \A k \in 1..Len(st.args) :
                (IsCall(st.args[k]) /\ OperandResult(st.args[k]).kind = "Ok")
                    => st.args[k].dat.st.res # None
        /\ Len(out) >= Len(all)
        /\ SubSeq(out, 1, Len(all)) = all

\* C20, amended: the operator of a Call Node is invoked with its operands
\* unresolved and resolves them itself.  Add, Subtract and Multiply write their
\* arity diagnostic first, then resolve the operands from the left and stop at the
\* first that fails or is not an Integer: the operands before it are resolved, those
\* after it are not, and the call returns a value only when it stops at none.  Print
\* with one operand resolves it while displaying it and writes its own line last;
\* Print with any other count resolves no operand.
C20_OperandsResolvedOnDemand ==
    RunReturned =>
        LET st == ast[1]
            stop == FirstStop(st.args)
            calls == {k \in 1..Len(st.args) : IsCall(st.args[k])}
        IN
        IF IsArith(st.op.dat.op)
        THEN /\ out = OwnDiagnostic(st)
                        \o OperandsOut(st.args, IF stop > Len(st.args) THEN Len(st.args) ELSE stop)
             /\ \A k \in calls : /\ k < stop => st.args[k].dat.st.res # None
                                 /\ k >= stop => st.args[k].dat.st.res = None
             /\ pc = "resolved" <=> stop > Len(st.args)
        ELSE IF Len(st.args) = 1
        THEN LET shown == VarDisplay(st.args[1], E0) IN
             /\ out = shown.e.out \o <<Line("display", shown.text)>>
             /\ pc = "resolved"
        ELSE /\ out = <<>>
             /\ \A k \in calls : st.args[k].dat.st.res = None
             /\ pc = "unresolved"

\* Add stopped at a Str: the call after it was not resolved and wrote nothing
C20_Witness ==
    /\ RunReturned
    /\ pc = "unresolved"
    /\ ast[1].op.dat.op = "Add"
    /\ Len(ast[1].args) = 2
    /\ ast[1].args[1].dat.tag = "Str"
    /\ IsCall(ast[1].args[2])
    /\ OperandOut(ast[1].args[2]) # <<>>
    /\ ast[1].args[2].dat.st.res = None
    /\ out = <<>>

(***************************************************************************)
(* Claims about what resolve changes and how often it runs.                *)
(***************************************************************************)
RECURSIVE Skeleton(_)
\* A node without its cache slots: operator, operands and location, at every depth
Skeleton(st) ==
    [op |-> st.op,
     args |-> [k \in 1..Len(st.args) |->
                 IF st.args[k].dat.tag = "Statement"
                 THEN [slot |-> st.args[k].slot, st |-> Skeleton(st.args[k].dat.st)]
                 ELSE st.args[k]],
     loc |-> st.loc]

\* A step that is a call of resolve on the node make_ast built
IsResolveStep == ast # None /\ nresolves' = nresolves + 1

\* C21: resolve changes nothing of a Call Node but its cache slot: after a
\* successful resolve the cache slot holds an alias of the very cell that resolve
\* returned; after a failed resolve it holds what it held before; in both cases the
\* operator, the operand list and the location are unchanged.
C21_ResolveChangesCacheOnly ==
    [][IsResolveStep =>
        /\ Skeleton(ast'[1]) = Skeleton(ast[1])
        /\ result'.kind = "Ok" => ast'[1].res = Some(result'.val)
        /\ result'.kind # "Ok" => ast'[1].res = ast[1].res]_vars

\* A node with a nested call has been resolved twice and its cache slot holds the
\* cell the second resolve returned, not the first
C21_Witness ==
    /\ entry = "make_ast"
    /\ nresolves = 2
    /\ pc = "resolved"
    /\ \E k \in 1..Len(ast[1].args) : ast[1].args[k].dat.tag = "Statement"
    /\ ast[1].res = Some(result.val)
    /\ result.val.slot > FirstFreeSlot + OwnCells(ast[1])

\* No - or * of the source is left without an operand: none is the last word or
\* stands right before a `)`
NoSeededCallWithoutOperand(ws) ==
    \A k \in 1..Len(ws) :
        ws[k] \in {<<"-">>, <<"*">>} => (k < Len(ws) /\ ws[k + 1] # CloseWord)

\* C22: for every source text, the empty text and a lone `)` included, in which no
\* - or * call has zero operands, run returns normally with a value or an error
\* value: no step of tokenize, make_ast or evaluation aborts the process.
C22_RunNeverCrashes ==
    (entry = "run_lisp" /\ NoSeededCallWithoutOperand(Words(source))) => pc # "crashed"

\* The calls of print a source writes: the word print in the operator's place
PrintCalls(ws) ==
    Cardinality({k \in 1..Len(ws) : ws[k] = PrintText /\ (k = 1 \/ ws[k - 1] = OpenWord)})

\* C23: during one run every Call Node of the built tree is resolved at most once
\* (displaying an operand and building an error message resolve no node a second
\* time), so the run displays at most as many lines as its source has print calls.
C23_EachNodeResolvedOnce ==
    (entry = "run_lisp" /\ ast # None) =>
        /\ \A n \in NodesOf(ast[1]) : n.calls <= 1
        /\ Displays(out) <= PrintCalls(Words(source))

\* print displayed the value of a print call: both nodes were resolved, once each
C23_Witness ==
    /\ entry = "run_lisp"
    /\ pc = "resolved"
    /\ ast[1].op.dat.op = "Print"
    /\ ast[1].calls = 1
    /\ Len(ast[1].args) = 1
    /\ ast[1].args[1].dat.tag = "Statement"
    /\ ast[1].args[1].dat.st.op.dat.op = "Print"
    /\ ast[1].args[1].dat.st.calls = 1
    /\ Displays(out) = 2
    /\ PrintCalls(Words(source)) = 2

\* The tokens that are no parenthesis
WordTokens(ts) == SelectSeq(ts, LAMBDA t : t.dat \notin {OpenParens, CloseParens})

\* The indices of the stream where the scanner meets a space or a `)` outside a
\* string, or the quote that closes a string
EmittingChars(cs) ==
    {k \in 1..Len(cs) : \/ cs[k] \in {" ", ")"} /\ OutsideString(cs, k)
                        \/ cs[k] = Quote /\ ~OutsideString(cs, k)}

\* The word characters that run up to the end of the input
TrailingWord(cs) == RunInto(cs, Len(cs) + 1)

\* C24: tokenize emits a word token only when it meets a space, a `)` or a closing
\* quote, one at most for each; a word still in the buffer when the input ends
\* yields no token, so the tokens hold none of the characters of a last word that
\* no space and no `)` follows, and `+ 1 2` tokenizes to `+` and `1`.
C24_LastWordYieldsNoToken ==
    Tokenized =>
        LET cs == Chars(Stream(source))
            words == {k \in 1..Len(cs) : IsWordChar(cs[k])}
        IN
        /\ Len(WordTokens(toks)) <= Cardinality(EmittingChars(cs))
        /\ WordCharsIn(toks) <= Cardinality(words \ TrailingWord(cs))
        /\ Tokenize(<<"+", " ", "1", " ", "2">>)
              = <<Token(Location(0, 0), Ident(<<"+">>)),
                  Token(Location(0, 2), Recognizable(Integer(1)))>>

\* Two words and one space between them: the first is a token, the second is not
C24_Witness ==
    /\ Tokenized
    /\ source = <<"a", " ", "a">>
    /\ TrailingWord(Chars(Stream(source))) = {3}
    /\ toks = <<Token(Location(0, 0), Ident(<<"a">>))>>

\* The slices the call of make_ast on ts hands to its recursive calls: one for each
\* `)` the scan reaches with exactly one index on open_stack, from that index to it
RecursiveCalls(ts, chk) ==
    IF Len(ts) = 0 \/ EndIdx(ts).under THEN {}
    ELSE LET scan(i) == ScanFrom(ts, StartIdx(ts), i - 1, FALSE,
                                 [open_stack |-> <<>>, args |-> <<>>, loc |-> None,
                                  next |-> FirstFreeSlot], chk)
         IN  {SubSeq(ts, scan(i).acc.open_stack[1] + 1, i + 1) :
                 i \in {j \in StartIdx(ts)..EndIdx(ts).idx :
                           /\ scan(j).kind = "Scanned"
                           /\ ts[j + 1].dat = CloseParens
                           /\ Len(scan(j).acc.open_stack) = 1}}

RECURSIVE AllCalls(_, _)
\* The slices of all the calls of make_ast a call on ts brings about, its own included
AllCalls(ts, chk) == {ts} \cup UNION {AllCalls(s, chk) : s \in RecursiveCalls(ts, chk)}

RECURSIVE RecursionDepth(_, _)
\* How deep the calls of make_ast nest below the call on ts
RecursionDepth(ts, chk) ==
    IF RecursiveCalls(ts, chk) = {} THEN 0
    ELSE 1 + Max({RecursionDepth(s, chk) : s \in RecursiveCalls(ts, chk)})

RECURSIVE OpenAfter(_, _)
\* How many parentheses are open after the first k characters of a text
OpenAfter(s, k) ==
    IF k = 0 THEN 0
    ELSE IF s[k] = "(" THEN OpenAfter(s, k - 1) + 1
    ELSE IF s[k] = ")" THEN Max({0, OpenAfter(s, k - 1) - 1})
    ELSE OpenAfter(s, k - 1)

\* The parenthesis nesting depth of a text
NestingDepth(s) == Max({OpenAfter(s, k) : k \in 0..Len(s)})

\* run_lisp has returned, or was aborted
Terminated ==
    \/ pc \in {"failed", "crashed"}
    \/ pc \in {"resolved", "unresolved"} /\ nresolves = 1

\* On the tokens run_lisp hands to make_ast, every recursive call of make_ast gets a
\* slice shorter than its caller's and the calls nest no deeper than the
\* parentheses of the source; one resolve of the tree enters each of its nodes
\* once at most
BoundedWork ==
    /\ (entry = "run_lisp" /\ pc = "tokens") =>
          \A chk \in BOOLEAN :
              /\ \A c \in AllCalls(toks, chk) :
                    \A s \in RecursiveCalls(c, chk) : Len(s) < Len(c)
              /\ RecursionDepth(toks, chk) <= NestingDepth(source)
    /\ (entry = "run_lisp" /\ ast # None) =>
          \A n \in NodesOf(ast[1]) : n.calls <= nresolves

\* C25: run terminates on every finite source: every recursive call of make_ast
\* receives a token slice strictly shorter than its caller's, the recursion is at
\* most as deep as the parentheses of the source nest, evaluation enters each node
\* of the tree once at most, and run_lisp comes to its end.
C25_RunTerminates == []BoundedWork /\ <>Terminated

\* A run that built a call within a call, by one recursive call of make_ast on a
\* slice of 5 of the 8 tokens, resolved both nodes once and returned
C25_Witness ==
    /\ entry = "run_lisp"
    /\ Terminated
    /\ pc = "resolved"
    /\ Len(toks) = 8
    /\ RecursiveCalls(toks, TRUE) = {SubSeq(toks, 3, 7)}
    /\ RecursionDepth(toks, TRUE) = 1
    /\ NestingDepth(source) = 2
    /\ \A n \in NodesOf(ast[1]) : n.calls = 1
    /\ Cardinality(NodesOf(ast[1])) = 2

=============================================================================
